---------------------------- MODULE Spec2Model ----------------------------
(***************************************************************************)
(* Sea Treasure Hunt (SeaTreasureHunt.jsx, src/unnamed/part_001): the game *)
(* session of the React component as a state machine.                      *)
(*                                                                         *)
(* Numbers.  The component computes with IEEE doubles.  Here lengths and   *)
(* speeds are integers in hundredths of a pixel (0.9 is 90, 0.36 is 36),   *)
(* oxygen is an integer in 1/100000 of a percent, and a product with 0.9   *)
(* is truncated to the hundredth.                                          *)
(*                                                                         *)
(* React.  A handler and the render it causes are one step.  The passive   *)
(* effect that depends on gameState (the win condition, lines 293-300) is  *)
(* the callback that runs after a render in which gameState changed: it is *)
(* the step WinEffect, and no other handler runs between that render and   *)
(* the effect.  Closures see the state of the render that created them;    *)
(* the keyboard effect has an empty dependency list, so its handler keeps  *)
(* the closures of the first render.                                       *)
(***************************************************************************)
EXTENDS Integers, Sequences, FiniteSets, TLC

----------------------------------------------------------------------------
(* Bounds of the model. *)

\* A Tick step is a run of this many animation frames with no input between.
TicksPerStep == 100
\* Tick steps in state playing whose frame interval exceeds the clamp, in one behaviour.
MaxLongTicks == 2
\* Arrow-key presses in one behaviour (specifications with the arrow keys).
MaxKeyPresses == 1
\* Ticks of a single frame in one behaviour (specifications with such ticks).
MaxFineTicks == 3

----------------------------------------------------------------------------
(* Program constants. *)

VIEW_W == 960
VIEW_H == 600
WORLD_H == 5200
WATER_SURFACE_Y == 110
\* number of air pockets (N), first pocket depth, pocket radius
N == 8
FirstPocketY == 400
PocketRadius == 38
\* randInt ranges of the world generator
PocketXMin == 120
PocketStepMin == 500
PocketStepMax == 720
TreasureXMin == 160
TreasureW == 120
TreasureH == 80
\* step(): upper bound of the frame delta in ms
MaxDt == 33
\* step(): 0.36, 0.4, 3, 0.6, 3.3 and 0.9 px, in hundredths
Gravity == 36
IntroAccel == 40
IntroMaxSpeed == 300
Accel == 60
MaxSpeed == 330
Descent == 90
\* oxygen: 0.018 per 16.67 ms, as 18/1000 per 1667/100 ms; the bonus of 40
DrainMilli == 18
FrameCentiMs == 1667
OxygenBonus == 40
\* nearestEnterablePocketId: player radius and slack
PlayerRadius == 18
EnterSlack == 8

Px(n) == n * 100
Ox(n) == n * 100000

----------------------------------------------------------------------------
(* Small helpers. *)

Min(a, b) == IF a <= b THEN a ELSE b
Max(a, b) == IF a >= b THEN a ELSE b
Abs(a) == IF a >= 0 THEN a ELSE -a

\* clamp(v, min, max) = Math.max(min, Math.min(max, v))
clamp(v, lo, hi) == Max(lo, Min(hi, v))

\* v * 0.9, truncated to the hundredth
Damp(v) == IF v >= 0 THEN (v * 9) \div 10 ELSE -(((-v) * 9) \div 10)

\* Math.floor of a length in hundredths, in pixels
Floor(v) == v \div 100

\* The square of a length in hundredths as the pair <<hi, lo>> = hi * 10000 + lo
\* (the square of 5200 px in hundredths does not fit 32 bits).
Sq(d) ==
  LET a == Abs(d) \div 100
      f == Abs(d) % 100
      r == 200 * a * f + f * f
  IN  <<a * a + r \div 10000, r % 10000>>

\* Math.hypot(dx, dy), squared, as a pair
Hypot2(dx, dy) ==
  LET p == Sq(dx)
      q == Sq(dy)
  IN  <<p[1] + q[1] + (p[2] + q[2]) \div 10000, (p[2] + q[2]) % 10000>>

PairLess(p, q) == p[1] < q[1] \/ (p[1] = q[1] /\ p[2] < q[2])
PairLeq(p, q) == p[1] < q[1] \/ (p[1] = q[1] /\ p[2] <= q[2])

\* null
Null == [null |-> TRUE]
\* activePocketId null (pocket ids are 1..N); selectedOption null
NoPocket == 0
NoOption == -1

----------------------------------------------------------------------------
(* Questions. *)

SAMPLE_QUESTIONS ==
  << [question |-> "What gas do humans need to breathe?",
      options |-> <<"Oxygen", "Nitrogen", "Carbon Dioxide", "Helium">>,
      answerIndex |-> 0],
     [question |-> "Which ocean is the largest?",
      options |-> <<"Indian", "Pacific", "Atlantic", "Arctic">>,
      answerIndex |-> 1],
     [question |-> "2 + 2 = ?",
      options |-> <<"3", "4", "5", "22">>,
      answerIndex |-> 1],
     [question |-> "The capital of Australia is...",
      options |-> <<"Canberra", "Sydney", "Melbourne", "Perth">>,
      answerIndex |-> 0] >>

----------------------------------------------------------------------------
(* World generation (useMemo, once at mount). *)

\* pockets: xs[i] and steps[i] are the i-th outcomes of randInt(120, VIEW_W - 120)
\* and of randInt(500, 720); the pocket's id (uid()) is its position in the list.
\* Mutant of PocketsFrom: the depth is not advanced after a pocket is pushed.
RECURSIVE PocketsFromSameDepth(_, _, _, _)
PocketsFromSameDepth(i, y, xs, steps) ==
  IF i >= N THEN <<>>
  ELSE <<[id |-> i + 1, x |-> Px(xs[i + 1]), y |-> Px(y), radius |-> Px(PocketRadius), qIndex |-> i]>>
       \o PocketsFromSameDepth(i + 1, y, xs, steps)

\* The loop of the pockets memo from its i-th round with depth y, lines 124-127
RECURSIVE PocketsFrom(_, _, _, _)
PocketsFrom(i, y, xs, steps) ==
  IF i >= N THEN <<>>
  ELSE <<[id |-> i + 1, x |-> Px(xs[i + 1]), y |-> Px(y), radius |-> Px(PocketRadius), qIndex |-> i]>>
       \o PocketsFrom(i + 1, y + steps[i + 1], xs, steps)

GenPockets(xs, steps) == PocketsFrom(0, FirstPocketY, xs, steps)

\* treasure: tx is the outcome of randInt(160, VIEW_W - 160)
GenTreasure(tx) ==
  [x |-> Px(tx), y |-> Px(WORLD_H - 140), w |-> Px(TreasureW), h |-> Px(TreasureH)]

\* The outcomes of the random source explored: each is <<xs, steps, tx>>.
Worlds ==
  { << <<480, 120, 840, 120, 840, 120, 840, 480>>,
       <<670, 670, 670, 670, 670, 670, 680, 500>>, 400 >> }

WorldOk(w) ==
  /\ \A i \in 1..N : w[1][i] \in PocketXMin..(VIEW_W - PocketXMin)
  /\ \A i \in 1..N : w[2][i] \in PocketStepMin..PocketStepMax
  /\ w[3] \in TreasureXMin..(VIEW_W - TreasureXMin)

----------------------------------------------------------------------------
VARIABLES
  gameState,          \* menu | intro | playing | paused | question | gameover | win
  oxygen,
  score,
  mobileControls,
  splash,             \* Null or [x, y]; the ttl is read by the renderer only
  player,             \* player.current: [x, y, vx, vy]
  keys,               \* keys.current: [left, right]
  lastTs,             \* lastTs.current: 0 until the first frame, then nonzero
  questions,
  activePocketId,
  answeredPocketIds,
  currentQ,
  selectedOption,
  pockets,
  treasure,
  reader,             \* the FileReader of onFileChange: Null, or [text, done]
  effectPending,      \* a render changed gameState and its effects have not run yet
  keyPresses,         \* arrow-key presses so far (bounded by MaxKeyPresses)
  longTicks,          \* playing ticks with a long frame interval so far (MaxLongTicks)
  fineTicks           \* ticks of a single frame so far (MaxFineTicks)

vars == <<gameState, oxygen, score, mobileControls, splash, player, keys, lastTs,
          questions, activePocketId, answeredPocketIds, currentQ, selectedOption,
          pockets, treasure, reader, effectPending, keyPresses, longTicks, fineTicks>>

session == <<gameState, oxygen, score, activePocketId, answeredPocketIds, currentQ,
             selectedOption>>

States == {"menu", "intro", "playing", "paused", "question", "gameover", "win"}

\* The component after the first render and its effects, its world drawn from ws.
MountedIn(ws) ==
  /\ gameState = "menu"
  /\ oxygen = Ox(100)
  /\ score = 0
  /\ mobileControls = FALSE
  /\ splash = Null
  /\ player = [x |-> Px(VIEW_W) \div 2, y |-> Px(20), vx |-> 0, vy |-> 0]
  /\ keys = [left |-> FALSE, right |-> FALSE]
  /\ lastTs = 0
  /\ questions = SAMPLE_QUESTIONS
  /\ activePocketId = NoPocket
  /\ answeredPocketIds = {}
  /\ currentQ = Null
  /\ selectedOption = NoOption
  /\ \E w \in ws :
       /\ WorldOk(w)
       /\ pockets = GenPockets(w[1], w[2])
       /\ treasure = GenTreasure(w[3])
  /\ effectPending = FALSE
  /\ keyPresses = 0
  /\ longTicks = 0
  /\ fineTicks = 0

Mounted == MountedIn(Worlds)

\* The state after the first render and its effects: no file chosen yet.
Init == Mounted /\ reader = Null


----------------------------------------------------------------------------
(* The game loop: step(ts), lines 161-213. *)

\* Mutant of Dt: the frame delta is not clamped to 33 ms.
DtUnclamped(last, elapsed) == IF last = 0 THEN 0 ELSE elapsed

\* const dt = Math.min(33, ts - (lastTs.current || ts)); elapsed is ts - lastTs
Dt(last, elapsed) == IF last = 0 THEN 0 ELSE Min(MaxDt, elapsed)

\* Mutant of Drain: only whole frames of 16.67 ms drain oxygen.
DrainWholeFrames(dt) == DrainMilli * 100 * ((dt * 100) \div FrameCentiMs)

\* 0.018 * (dt / 16.67), in 1/100000
Drain(dt) == (DrainMilli * 10000 * dt) \div FrameCentiMs

\* the oxygen updater of the playing branch, line 200, for a drain d
OxygenNext(o, d) == clamp(o - d, 0, Ox(100))

\* Mutant of OxygenOut: the test misses the clamped value 0.
OxygenOutStrict(next) == next < 0

\* the updater's test for game over, line 201
OxygenOut(next) == next <= 0

\* Math.max(s, Math.floor(px.y)), line 206
ScoreNext(s, y) == Max(s, Floor(y))

\* horizontal control: accelerate under a held key, else damp (174-176, 191-193)
VxNext(vx, k, accel, maxSpeed) ==
  IF k.left THEN clamp(vx - accel, -maxSpeed, maxSpeed)
  ELSE IF k.right THEN clamp(vx + accel, -maxSpeed, maxSpeed)
  ELSE Damp(vx)

\* Mutant of XNext: the position is not clamped to the margins.
XNextNoClamp(x, vx) == x + vx

\* px.x = clamp(px.x + px.vx, 30, VIEW_W - 30), lines 177 and 195
XNext(x, vx) == clamp(x + vx, Px(30), Px(VIEW_W - 30))

\* px.y = clamp(px.y + 0.9, 20, WORLD_H - 40), line 196
YNext(y) == clamp(y + Descent, Px(20), Px(WORLD_H - 40))

\* <<x, vx>> after n frames of horizontal control from p = <<x, vx>> with the keys
\* k held.  Once the velocity no longer changes, the remaining frames add it n
\* times under the clamp.
\* (q = <<x, vx, next vx>> is bound as a value, so each frame is computed once.)
RECURSIVE HorizRun(_, _, _, _, _)
HorizRun(p, k, accel, maxSpeed, n) ==
  IF n = 0 THEN p
  ELSE CHOOSE r \in
         { IF q[3] = q[2] THEN <<XNext(q[1], n * q[3]), q[3]>>
           ELSE HorizRun(<<XNext(q[1], q[3]), q[3]>>, k, accel, maxSpeed, n - 1) :
             q \in { <<p[1], p[2], VxNext(p[2], k, accel, maxSpeed)>> } } : TRUE

\* Mutant of StepIntro: the vertical velocity is kept at the surface.
StepIntroKeepsVy(f, k) ==
  LET vy == f.player.vy + Gravity
      y  == f.player.y + vy
      h  == HorizRun(<<f.player.x, f.player.vx>>, k, IntroAccel, IntroMaxSpeed, 1)
  IN  IF y >= Px(WATER_SURFACE_Y)
      THEN [f EXCEPT !.player = [x |-> h[1], y |-> y, vx |-> h[2], vy |-> vy],
                     !.splash = [x |-> h[1], y |-> Px(WATER_SURFACE_Y)],
                     !.gameState = "playing"]
      ELSE [f EXCEPT !.player = [x |-> h[1], y |-> y, vx |-> h[2], vy |-> vy]]

\* The intro branch of one frame (168-185), on the record
\* f = [gameState, oxygen, score, splash, player, lastTs] with the keys k held.
StepIntro(f, k) ==
  LET vy == f.player.vy + Gravity
      y  == f.player.y + vy
      h  == HorizRun(<<f.player.x, f.player.vx>>, k, IntroAccel, IntroMaxSpeed, 1)
  IN  IF y >= Px(WATER_SURFACE_Y)
      THEN [f EXCEPT !.player = [x |-> h[1], y |-> y, vx |-> h[2], vy |-> 0],
                     !.splash = [x |-> h[1], y |-> Px(WATER_SURFACE_Y)],
                     !.gameState = "playing"]
      ELSE [f EXCEPT !.player = [x |-> h[1], y |-> y, vx |-> h[2], vy |-> vy]]

\* n frames of the intro branch; the frame that reaches the surface ends the run,
\* because the next frame belongs to the loop of the next render.
\* (g, the record after the frames so far, is bound as a value.)
RECURSIVE RunIntro(_, _, _)
RunIntro(f, k, n) ==
  CHOOSE r \in
    { IF n = 0 \/ g.gameState # "intro" THEN g ELSE RunIntro(StepIntro(g, k), k, n - 1) :
        g \in {f} } : TRUE

\* The number of frames, of n with drain d each, that run in state playing: the
\* frame on which the oxygen runs out is the last one.
PlayingFrames(o, d, n) ==
  IF ~OxygenOut(OxygenNext(o, n * d)) THEN n
  ELSE IF d = 0 THEN 1
  ELSE Min(n, Max(1, (o + d - 1) \div d))

\* n frames (n >= 1) of the playing branch (187-207) with frame delta dt.  With
\* n = 1 this is the branch as written; for n > 1 the clamps and the running
\* maximum compose: y rises by 0.9 per frame up to its bound, oxygen falls by the
\* drain per frame down to 0, the score is the maximum over the final depth.
StepPlaying(f, k, dt, n) ==
  LET m    == PlayingFrames(f.oxygen, Drain(dt), n)
      h    == HorizRun(<<f.player.x, f.player.vx>>, k, Accel, MaxSpeed, m)
      y    == Min(Px(WORLD_H - 40), YNext(f.player.y) + (m - 1) * Descent)
      next == OxygenNext(f.oxygen, m * Drain(dt))
  IN  [f EXCEPT !.player = [x |-> h[1], y |-> y, vx |-> h[2], vy |-> f.player.vy],
                !.oxygen = next,
                !.gameState = IF OxygenOut(next) THEN "gameover" ELSE "playing",
                !.score = ScoreNext(f.score, y)]

\* Mutant of Frames: the playing branch also runs while paused.
FramesWhilePaused(f, k, dt, n) ==
  LET g == [f EXCEPT !.lastTs = 1]
  IN  IF f.gameState = "intro" THEN RunIntro(g, k, n)
      ELSE IF f.gameState \in {"playing", "paused"} THEN StepPlaying(g, k, dt, n)
      ELSE g

\* n frames of step with the same frame delta dt; gameState is the one of the
\* render the loop closed over, so a frame runs one branch at most.
Frames(f, k, dt, n) ==
  LET g == [f EXCEPT !.lastTs = 1]
  IN  IF f.gameState = "intro" THEN RunIntro(g, k, n)
      ELSE IF f.gameState = "playing" THEN StepPlaying(g, k, dt, n)
      ELSE g

\* n frames, each `elapsed` ms after the one before: the first frame ever has
\* lastTs = 0 and so a delta of 0.
step(f, k, elapsed, n) ==
  IF f.lastTs = 0 /\ n > 1
  THEN LET g == Frames(f, k, Dt(f.lastTs, elapsed), 1)
       IN  IF g.gameState # f.gameState THEN g
           ELSE Frames(g, k, Dt(g.lastTs, elapsed), n - 1)
  ELSE Frames(f, k, Dt(f.lastTs, elapsed), n)

Frame == [gameState |-> gameState, oxygen |-> oxygen, score |-> score,
          splash |-> splash, player |-> player, lastTs |-> lastTs]

\* Frame intervals (ms) the host reports.
Elapsed == {16, 5000}

\* Tick(n, elapsed): n animation frames, `elapsed` ms apart.  Frame intervals
\* above the clamp that drain oxygen are counted against MaxLongTicks, ticks of
\* a single frame against MaxFineTicks.
Tick(n, elapsed) ==
  LET long == elapsed > MaxDt /\ gameState = "playing"
      g    == step(Frame, keys, elapsed, n)
  IN  /\ ~effectPending
      /\ long => longTicks < MaxLongTicks
      /\ n = 1 => fineTicks < MaxFineTicks
      /\ gameState' = g.gameState
      /\ oxygen' = g.oxygen
      /\ score' = g.score
      /\ splash' = g.splash
      /\ player' = g.player
      /\ lastTs' = g.lastTs
      /\ effectPending' = (g.gameState # gameState)
      /\ longTicks' = IF long THEN longTicks + 1 ELSE longTicks
      /\ fineTicks' = IF n = 1 THEN fineTicks + 1 ELSE fineTicks
      /\ UNCHANGED <<mobileControls, keys, questions, activePocketId, answeredPocketIds,
                     currentQ, selectedOption, pockets, treasure, reader, keyPresses>>

----------------------------------------------------------------------------
(* The win condition effect, lines 293-300. *)

insideTreasure(px, t) ==
  /\ px.x > t.x - Px(40) /\ px.x < t.x + t.w + Px(40)
  /\ px.y > t.y - Px(10) /\ px.y < t.y + t.h + Px(10)

\* Mutant of WinEffect: the test for state playing (line 294) is missing.
WinEffectAnyState ==
  /\ effectPending
  /\ IF gameState # "win" /\ insideTreasure(player, treasure)
     THEN gameState' = "win" /\ effectPending' = TRUE
     ELSE gameState' = gameState /\ effectPending' = FALSE
  /\ UNCHANGED <<oxygen, score, mobileControls, splash, player, keys, lastTs, questions,
                 activePocketId, answeredPocketIds, currentQ, selectedOption, pockets,
                 treasure, reader, keyPresses, longTicks, fineTicks>>

\* Mutant of WinEffect: the effect never sets state win.
WinEffectNoWin ==
  /\ effectPending
  /\ gameState' = gameState
  /\ effectPending' = FALSE
  /\ UNCHANGED <<oxygen, score, mobileControls, splash, player, keys, lastTs, questions,
                 activePocketId, answeredPocketIds, currentQ, selectedOption, pockets,
                 treasure, reader, keyPresses, longTicks, fineTicks>>

\* The effect runs after a render in which gameState changed.
WinEffect ==
  /\ effectPending
  /\ IF gameState = "playing" /\ insideTreasure(player, treasure)
     THEN gameState' = "win" /\ effectPending' = TRUE
     ELSE gameState' = gameState /\ effectPending' = FALSE
  /\ UNCHANGED <<oxygen, score, mobileControls, splash, player, keys, lastTs, questions,
                 activePocketId, answeredPocketIds, currentQ, selectedOption, pockets,
                 treasure, reader, keyPresses, longTicks, fineTicks>>

----------------------------------------------------------------------------
(* start, togglePause, restart: lines 218-243. *)

\* Mutant of Reset: the current question is not cleared.
ResetKeepsQuestion ==
  /\ oxygen' = Ox(100)
  /\ score' = 0
  /\ answeredPocketIds' = {}
  /\ activePocketId' = NoPocket
  /\ currentQ' = currentQ
  /\ selectedOption' = NoOption
  /\ splash' = Null
  /\ gameState' = "intro"
  /\ effectPending' = (gameState # "intro")

\* The fields start() and restart() both set.
Reset ==
  /\ oxygen' = Ox(100)
  /\ score' = 0
  /\ answeredPocketIds' = {}
  /\ activePocketId' = NoPocket
  /\ currentQ' = Null
  /\ selectedOption' = NoOption
  /\ splash' = Null
  /\ gameState' = "intro"
  /\ effectPending' = (gameState # "intro")

\* Start button of the menu screen
Start ==
  /\ ~effectPending
  /\ gameState = "menu"
  /\ player' = [x |-> Px(VIEW_W) \div 2, y |-> Px(20), vx |-> 60, vy |-> -120]
  /\ Reset
  /\ UNCHANGED <<mobileControls, keys, lastTs, questions, pockets, treasure, reader,
                 keyPresses, longTicks, fineTicks>>

\* the R key (any state), and the Restart / Try Again / Play Again buttons
Restart ==
  /\ ~effectPending
  /\ player' = [x |-> Px(VIEW_W) \div 2, y |-> Px(20), vx |-> 0, vy |-> 0]
  /\ Reset
  /\ UNCHANGED <<mobileControls, keys, lastTs, questions, pockets, treasure, reader,
                 keyPresses, longTicks, fineTicks>>

\* Mutant of PauseNext: every state but playing resumes.
PauseNextAny(st) == IF st = "playing" THEN "paused" ELSE "playing"

\* (st) => st === "playing" ? "paused" : st === "paused" ? "playing" : st
PauseNext(st) ==
  IF st = "playing" THEN "paused" ELSE IF st = "paused" THEN "playing" ELSE st

\* the P key (any state), and the Pause / Resume buttons
TogglePause ==
  /\ ~effectPending
  /\ gameState' = PauseNext(gameState)
  /\ effectPending' = (gameState' # gameState)
  /\ UNCHANGED <<oxygen, score, mobileControls, splash, player, keys, lastTs, questions,
                 activePocketId, answeredPocketIds, currentQ, selectedOption, pockets,
                 treasure, reader, keyPresses, longTicks, fineTicks>>

\* Mutant of MainMenu: going to the menu also clears the score.
MainMenuClearsScore ==
  /\ ~effectPending
  /\ gameState \in {"gameover", "win"}
  /\ gameState' = "menu"
  /\ score' = 0
  /\ effectPending' = TRUE
  /\ UNCHANGED <<oxygen, mobileControls, splash, player, keys, lastTs, questions,
                 activePocketId, answeredPocketIds, currentQ, selectedOption, pockets,
                 treasure, reader, keyPresses, longTicks, fineTicks>>

\* Main Menu button of the game-over and win screens, lines 424 and 437
MainMenu ==
  /\ ~effectPending
  /\ gameState \in {"gameover", "win"}
  /\ gameState' = "menu"
  /\ effectPending' = TRUE
  /\ UNCHANGED <<oxygen, score, mobileControls, splash, player, keys, lastTs, questions,
                 activePocketId, answeredPocketIds, currentQ, selectedOption, pockets,
                 treasure, reader, keyPresses, longTicks, fineTicks>>

\* Show / Hide Mobile Controls button of the menu screen, line 387
ToggleMobileControls ==
  /\ ~effectPending
  /\ gameState = "menu"
  /\ mobileControls' = ~mobileControls
  /\ UNCHANGED <<gameState, oxygen, score, splash, player, keys, lastTs, questions,
                 activePocketId, answeredPocketIds, currentQ, selectedOption, pockets,
                 treasure, reader, effectPending, keyPresses, longTicks, fineTicks>>

\* keydown / keyup of an arrow key (or a, d), lines 140-147; the touch buttons
\* (342-349) are a keydown followed by the keyup of their timer
KeyDown(dir) ==
  /\ ~effectPending
  /\ keyPresses < MaxKeyPresses
  /\ keys' = [keys EXCEPT ![dir] = TRUE]
  /\ keyPresses' = keyPresses + 1
  /\ UNCHANGED <<gameState, oxygen, score, mobileControls, splash, player, lastTs,
                 questions, activePocketId, answeredPocketIds, currentQ, selectedOption,
                 pockets, treasure, reader, effectPending, longTicks, fineTicks>>

KeyUp(dir) ==
  /\ ~effectPending
  /\ keys[dir]
  /\ keys' = [keys EXCEPT ![dir] = FALSE]
  /\ UNCHANGED <<gameState, oxygen, score, mobileControls, splash, player, lastTs,
                 questions, activePocketId, answeredPocketIds, currentQ, selectedOption,
                 pockets, treasure, reader, effectPending, keyPresses, longTicks,
                 fineTicks>>

----------------------------------------------------------------------------
(* Entering a pocket: lines 245-272. *)

\* Math.hypot(px.x - p.x, px.y - p.y), squared
Dist2(px, p) == Hypot2(px.x - p.x, px.y - p.y)

\* The loop of nearestEnterablePocketId from pocket i on: best is the position of
\* the nearest pocket so far (0: none yet, bestDist = Infinity).
RECURSIVE NearestFrom(_, _, _, _)
NearestFrom(i, px, answered, best) ==
  IF i > Len(pockets) THEN best
  ELSE IF pockets[i].id \in answered THEN NearestFrom(i + 1, px, answered, best)
  ELSE IF best = 0 \/ PairLess(Dist2(px, pockets[i]), Dist2(px, pockets[best]))
       THEN NearestFrom(i + 1, px, answered, i)
       ELSE NearestFrom(i + 1, px, answered, best)

\* best.radius + 18 + 8
EnterThreshold(p) == p.radius + Px(PlayerRadius) + Px(EnterSlack)

InRange(px, p) == PairLeq(Dist2(px, p), Sq(EnterThreshold(p)))

\* Mutant of nearestEnterablePocketId: the nearest pocket at any distance.
nearestPocketIdAnyDistance(px, answered) ==
  LET best == NearestFrom(1, px, answered, 0)
  IN  IF best = 0 THEN NoPocket ELSE pockets[best].id

nearestEnterablePocketId(px, answered) ==
  LET best == NearestFrom(1, px, answered, 0)
  IN  IF best = 0 THEN NoPocket
      ELSE IF InRange(px, pockets[best]) THEN pockets[best].id
      ELSE NoPocket

\* pockets.find((x) => x.id === id)
PocketOf(id) == pockets[CHOOSE i \in 1..Len(pockets) : pockets[i].id = id]

\* Mutant of QuestionFor: an index past the end takes the last question.
QuestionForNoWrap(p, qs) == qs[Min(p.qIndex, Len(qs) - 1) + 1]

\* questions[(p.qIndex ?? 0) % questions.length]
QuestionFor(p, qs) == qs[(p.qIndex % Len(qs)) + 1]

\* attemptEnterPocket as closed over a render with gameState gs, answeredPocketIds
\* answered and questions qs; player.current is read through the ref.
attemptEnterPocket(gs, answered, qs) ==
  LET id == nearestEnterablePocketId(player, answered)
  IN  IF gs \in {"playing", "intro"} /\ id # NoPocket
      THEN /\ activePocketId' = id
           /\ currentQ' = QuestionFor(PocketOf(id), qs)
           /\ selectedOption' = NoOption
           /\ gameState' = "question"
           /\ effectPending' = TRUE
      ELSE UNCHANGED <<activePocketId, currentQ, selectedOption, gameState, effectPending>>

\* The E button of the mobile controls (653-659): the closure of the current render.
ClickE ==
  /\ ~effectPending
  /\ mobileControls /\ gameState \in {"playing", "intro"}
  /\ attemptEnterPocket(gameState, answeredPocketIds, questions)
  /\ UNCHANGED <<oxygen, score, mobileControls, splash, player, keys, lastTs, questions,
                 answeredPocketIds, pockets, treasure, reader, keyPresses, longTicks,
                 fineTicks>>

\* The E key (144): onKey is registered once, by the effect with the empty
\* dependency list (137-156), so it calls the attemptEnterPocket of the first render.
KeyE ==
  /\ ~effectPending
  /\ attemptEnterPocket("menu", {}, SAMPLE_QUESTIONS)
  /\ UNCHANGED <<oxygen, score, mobileControls, splash, player, keys, lastTs, questions,
                 answeredPocketIds, pockets, treasure, reader, keyPresses, longTicks,
                 fineTicks>>

----------------------------------------------------------------------------
(* The question modal: lines 443-461, and submitAnswer, 274-290. *)

\* an option button: setSelectedOption(i)
SelectOption(i) ==
  /\ ~effectPending
  /\ gameState = "question"
  /\ currentQ # Null
  /\ i \in 0..(Len(currentQ.options) - 1)
  /\ selectedOption' = i
  /\ UNCHANGED <<gameState, oxygen, score, mobileControls, splash, player, keys, lastTs,
                 questions, activePocketId, answeredPocketIds, currentQ, pockets,
                 treasure, reader, effectPending, keyPresses, longTicks, fineTicks>>

\* Mutant of Cancel: the pocket left is counted as cleared.
CancelClearsPocket ==
  /\ ~effectPending
  /\ gameState = "question"
  /\ gameState' = "playing"
  /\ answeredPocketIds' = answeredPocketIds \cup {activePocketId}
  /\ effectPending' = TRUE
  /\ UNCHANGED <<oxygen, score, mobileControls, splash, player, keys, lastTs, questions,
                 activePocketId, currentQ, selectedOption, pockets, treasure, reader,
                 keyPresses, longTicks, fineTicks>>

\* Cancel button: setGameState("playing")
Cancel ==
  /\ ~effectPending
  /\ gameState = "question"
  /\ gameState' = "playing"
  /\ effectPending' = TRUE
  /\ UNCHANGED <<oxygen, score, mobileControls, splash, player, keys, lastTs, questions,
                 activePocketId, answeredPocketIds, currentQ, selectedOption, pockets,
                 treasure, reader, keyPresses, longTicks, fineTicks>>

\* Mutant of Correct: the option is counted from 1.
CorrectOneBased(sel, q) == sel + 1 = q.answerIndex

\* Number(selectedOption) === Number(currentQ.answerIndex)
Correct(sel, q) == sel = q.answerIndex

\* Mutant of OxygenBonusNext: the bonus without the clamp.
OxygenBonusNoClamp(o) == o + Ox(OxygenBonus)

\* setOxygen((o) => clamp(o + 40, 0, 100))
OxygenBonusNext(o) == clamp(o + Ox(OxygenBonus), 0, Ox(100))

\* Mutant of AnsweredNext: the active pocket is not added.
AnsweredNextDropped(answered, active) == answered

\* if (activePocketId) newSet.add(activePocketId)
AnsweredNext(answered, active) ==
  IF active # NoPocket THEN answered \cup {active} ELSE answered

\* Mutant of submitAnswer: the test for a selection (line 276) is missing.
submitAnswerNoSelectionCheck ==
  IF currentQ = Null
  THEN UNCHANGED <<answeredPocketIds, oxygen, activePocketId, currentQ, selectedOption,
                   gameState, effectPending>>
  ELSE IF Correct(selectedOption, currentQ)
  THEN /\ answeredPocketIds' = AnsweredNext(answeredPocketIds, activePocketId)
       /\ oxygen' = OxygenBonusNext(oxygen)
       /\ activePocketId' = NoPocket
       /\ currentQ' = Null
       /\ selectedOption' = NoOption
       /\ gameState' = "playing"
       /\ effectPending' = (gameState # "playing")
  ELSE /\ gameState' = "gameover"
       /\ effectPending' = (gameState # "gameover")
       /\ UNCHANGED <<answeredPocketIds, oxygen, activePocketId, currentQ, selectedOption>>

submitAnswer ==
  IF currentQ = Null \/ selectedOption = NoOption
  THEN UNCHANGED <<answeredPocketIds, oxygen, activePocketId, currentQ, selectedOption,
                   gameState, effectPending>>
  ELSE IF Correct(selectedOption, currentQ)
  THEN /\ answeredPocketIds' = AnsweredNext(answeredPocketIds, activePocketId)
       /\ oxygen' = OxygenBonusNext(oxygen)
       /\ activePocketId' = NoPocket
       /\ currentQ' = Null
       /\ selectedOption' = NoOption
       /\ gameState' = "playing"
       /\ effectPending' = (gameState # "playing")
  ELSE /\ gameState' = "gameover"
       /\ effectPending' = (gameState # "gameover")
       /\ UNCHANGED <<answeredPocketIds, oxygen, activePocketId, currentQ, selectedOption>>

\* submitAnswer() called in the state at hand, whatever is rendered
submitAnswerCall ==
  /\ ~effectPending
  /\ submitAnswer
  /\ UNCHANGED <<score, mobileControls, splash, player, keys, lastTs, questions, pockets,
                 treasure, reader, keyPresses, longTicks, fineTicks>>

\* Submit button of the modal, rendered in state question only (638)
Submit ==
  /\ ~effectPending
  /\ gameState = "question"
  /\ submitAnswer
  /\ UNCHANGED <<score, mobileControls, splash, player, keys, lastTs, questions, pockets,
                 treasure, reader, keyPresses, longTicks, fineTicks>>

----------------------------------------------------------------------------
(* Dataset loaders: lines 303-326. *)

\* The filter of handleJSONUpload on a mapped record r (309); a record of the
\* upload carries finite: Number.isFinite(r.answerIndex).
JSONRowOk(r) == r.question # "" /\ Len(r.options) >= 2 /\ r.finite

JSONRow(r) == [question |-> r.question, options |-> r.options, answerIndex |-> r.answerIndex]

\* obj.map(...).filter(...): reading r.question of a null element throws
JSONThrows(obj) == \E i \in 1..Len(obj) : obj[i] = Null

cleaned(obj) ==
  LET ok == SelectSeq(obj, JSONRowOk)
  IN  [i \in 1..Len(ok) |-> JSONRow(ok[i])]

\* The parsed uploads explored: isArray, and the elements when it is an array.
JSONUploads ==
  { [isArray |-> FALSE, rows |-> <<>>],
    [isArray |-> TRUE, rows |-> <<>>],
    [isArray |-> TRUE,
     rows |-> << [question |-> "Q1?", options |-> <<"A", "B">>, answerIndex |-> 1, finite |-> TRUE],
                 [question |-> "", options |-> <<"A", "B">>, answerIndex |-> 0, finite |-> TRUE],
                 [question |-> "Q3?", options |-> <<"A", "B", "C">>, answerIndex |-> 5, finite |-> TRUE] >>],
    [isArray |-> TRUE,
     rows |-> << Null,
                 [question |-> "Q1?", options |-> <<"A", "B">>, answerIndex |-> 1, finite |-> TRUE] >>] }

\* handleJSONUpload on the value JSON.parse returned
handleJSONUpload(up) ==
  /\ ~effectPending
  /\ IF up.isArray /\ ~JSONThrows(up.rows) /\ Len(cleaned(up.rows)) > 0
     THEN questions' = cleaned(up.rows)
     ELSE questions' = questions
  /\ UNCHANGED <<gameState, oxygen, score, mobileControls, splash, player, keys, lastTs,
                 activePocketId, answeredPocketIds, currentQ, selectedOption, pockets,
                 treasure, reader, effectPending, keyPresses, longTicks, fineTicks>>

----------------------------------------------------------------------------
(* parseCSVLoose, lines 44-63, and handleCSVUpload, 318-326.  A text is a  *)
(* sequence of one-character strings; the strings of a parsed row are      *)
(* strings, as those of SAMPLE_QUESTIONS are.                              *)

\* the characters String.prototype.trim removes, among those of the texts
Whitespace == {" ", "\t", "\r", "\n"}

Digits == <<"0", "1", "2", "3", "4", "5", "6", "7", "8", "9">>

RECURSIVE trimStart(_)
trimStart(s) ==
  IF s # <<>> /\ s[1] \in Whitespace THEN trimStart(Tail(s)) ELSE s

RECURSIVE trimEnd(_)
trimEnd(s) ==
  IF s # <<>> /\ s[Len(s)] \in Whitespace THEN trimEnd(SubSeq(s, 1, Len(s) - 1)) ELSE s

\* s.trim()
trim(s) == trimEnd(trimStart(s))

\* s.indexOf(c) and s.lastIndexOf(c): positions from 0, or -1
indexOf(s, c) ==
  IF \E i \in 1..Len(s) : s[i] = c
  THEN (CHOOSE i \in 1..Len(s) : s[i] = c /\ \A j \in 1..(i - 1) : s[j] # c) - 1
  ELSE -1

lastIndexOf(s, c) ==
  IF \E i \in 1..Len(s) : s[i] = c
  THEN (CHOOSE i \in 1..Len(s) : s[i] = c /\ \A j \in (i + 1)..Len(s) : s[j] # c) - 1
  ELSE -1

\* s.slice(from, to), for 0 <= from <= to <= s.length
slice(s, from, to) == SubSeq(s, from + 1, to)

\* s.split(c)
RECURSIVE split(_, _)
split(s, c) ==
  LET i == indexOf(s, c)
  IN  IF i = -1 THEN <<s>>
      ELSE <<slice(s, 0, i)>> \o split(slice(s, i + 1, Len(s)), c)

\* the piece before a "\n" without the "\r" the pattern /\r?\n/ takes with it
DropCR(s) ==
  IF s # <<>> /\ s[Len(s)] = "\r" THEN SubSeq(s, 1, Len(s) - 1) ELSE s

\* text.split(/\r?\n/)
splitLines(text) ==
  LET pieces == split(text, "\n")
  IN  [i \in 1..Len(pieces) |-> IF i < Len(pieces) THEN DropCR(pieces[i]) ELSE pieces[i]]

\* .map((s) => s.trim()).filter(Boolean)
RECURSIVE trimmedNonEmpty(_)
trimmedNonEmpty(ss) ==
  IF ss = <<>> THEN <<>>
  ELSE LET t == trim(Head(ss))
       IN  (IF t = <<>> THEN <<>> ELSE <<t>>) \o trimmedNonEmpty(Tail(ss))

\* the string of a sequence of characters
RECURSIVE Str(_)
Str(s) == IF s = <<>> THEN "" ELSE s[1] \o Str(Tail(s))

StrEach(ss) == [i \in 1..Len(ss) |-> Str(ss[i])]

\* Number(s) of a trimmed s made of digits, letters and punctuation, with no
\* sign, point, exponent or radix prefix: 0 for "", the decimal value of a run
\* of digits, NaN for anything else.
IsDigit(c) == \E d \in 1..Len(Digits) : Digits[d] = c

isNaN(s) == \E i \in 1..Len(s) : ~IsDigit(s[i])

RECURSIVE Number(_)
Number(s) ==
  IF s = <<>> THEN 0
  ELSE 10 * Number(SubSeq(s, 1, Len(s) - 1))
         + ((CHOOSE d \in 1..Len(Digits) : Digits[d] = s[Len(s)]) - 1)

\* The body of the loop of parseCSVLoose on one line: the items it pushes.
parseLine(line) ==
  LET firstComma == indexOf(line, ",")
      lastComma  == lastIndexOf(line, ",")
  IN  IF firstComma = -1 \/ lastComma = -1 \/ lastComma = firstComma THEN <<>>
      ELSE LET q          == trim(slice(line, 0, firstComma))
               optionsRaw == trim(slice(line, firstComma + 1, lastComma))
               idxRaw     == trim(slice(line, lastComma + 1, Len(line)))
               options    == trimmedNonEmpty(split(optionsRaw, ";"))
           IN  IF q = <<>> \/ options = <<>> \/ isNaN(idxRaw) THEN <<>>
               ELSE << [question |-> Str(q), options |-> StrEach(options),
                        answerIndex |-> Number(idxRaw)] >>

\* Mutant of parseLines: the first line that yields no item ends the parse.
RECURSIVE parseLinesUntilBad(_)
parseLinesUntilBad(lines) ==
  IF lines = <<>> \/ parseLine(Head(lines)) = <<>> THEN <<>>
  ELSE parseLine(Head(lines)) \o parseLinesUntilBad(Tail(lines))

\* The loop of parseCSVLoose over the trimmed, non-empty lines.
RECURSIVE parseLines(_)
parseLines(lines) ==
  IF lines = <<>> THEN <<>> ELSE parseLine(Head(lines)) \o parseLines(Tail(lines))

parseCSVLoose(text) == parseLines(trimmedNonEmpty(splitLines(text)))

\* Mutant of handleCSVUpload: the test for no rows (line 320) is missing.
handleCSVUploadNoCheck(text) == questions' = parseCSVLoose(text)

\* handleCSVUpload(text): the rows replace the list unless there are none
handleCSVUpload(text) ==
  LET rows == parseCSVLoose(text)
  IN  questions' = IF rows = <<>> THEN questions ELSE rows

\* csv2 of runDevTests, line 707
csv2 ==
  <<"W", "h", "a", "t", ",", " ", "i", "f", " ", "a", "n", "y",
     ",", " ", "i", "s", " ", "X", "?", ",", "O", "p", "t", "1",
     ";", "O", "p", "t", "2", ",", "1", "\r", "\n", "A", "n", "o",
     "t", "h", "e", "r", "?", ",", "Y", ";", "N", ",", "0" >>

\* Texts of the files loaded during a session.
CSVUploads ==
  { <<"Q", "1", "?", ",", "A", ";", "B", ";", "C", ",", "2", "\r", "\n",
      "Q", "2", "?", ",", "Y", ";", "N", ",", "0", "\n",
      "Q", "3", "?", ",", "A", ";", "B", ",", "1">>,
    <<"N", "o", "C", "o", "m", "m", "a", "s">>,
    <<"Q", ",", "A", "\n">> }

\* Mutant of CSVUpload: a load also closes the question on display.
CSVUploadClosesQuestion(text) ==
  /\ ~effectPending
  /\ handleCSVUpload(text)
  /\ currentQ' = Null
  /\ selectedOption' = NoOption
  /\ UNCHANGED <<gameState, oxygen, score, mobileControls, splash, player, keys, lastTs,
                 activePocketId, answeredPocketIds, pockets,
                 treasure, reader, effectPending, keyPresses, longTicks, fineTicks>>

\* A .csv file chosen with Load Qs, read and handed to handleCSVUpload (328-339);
\* the reader is dropped when the handler returns.
CSVUpload(text) ==
  /\ ~effectPending
  /\ handleCSVUpload(text)
  /\ UNCHANGED <<gameState, oxygen, score, mobileControls, splash, player, keys, lastTs,
                 activePocketId, answeredPocketIds, currentQ, selectedOption, pockets,
                 treasure, reader, effectPending, keyPresses, longTicks, fineTicks>>

----------------------------------------------------------------------------
\* The session without the arrow keys: the player sinks along the column it
\* started in.
Next ==
  \/ \E elapsed \in Elapsed : Tick(TicksPerStep, elapsed)
  \/ WinEffect
  \/ Start
  \/ Restart
  \/ TogglePause
  \/ MainMenu
  \/ ToggleMobileControls
  \/ ClickE
  \/ KeyE
  \/ \E i \in 0..3 : SelectOption(i)
  \/ Cancel
  \/ Submit
  \/ \E up \in JSONUploads : handleJSONUpload(up)
  \/ \E text \in CSVUploads : CSVUpload(text)

Spec == Init /\ [][Next]_vars

----------------------------------------------------------------------------
(* The loader on its own: a .csv file is chosen on the menu screen right   *)
(* after the first render (384), and its text is delivered by onload.      *)

CSVQuestions ==
  { <<"Q", "?">>, <<"W", ",", " ", "i">>, <<" ", "Q", " ">>, <<>>,
    <<"a", ",", "b", ",", "c">> }

CSVOptions ==
  { <<"A", ";", "B">>, <<" ", ";", "A", ";">>, <<"A">>, <<";">> }

CSVIndexes ==
  { <<"1">>, <<>>, <<"n">>, <<" ", "0">>, <<"1", "2">> }

CSVRows ==
  { q \o <<",">> \o o \o <<",">> \o i :
      q \in CSVQuestions, o \in CSVOptions, i \in CSVIndexes }
  \cup { <<"N", "o">>, <<"Q", ",", "A">> }

\* The lines of a batch: two valid rows, a line with no comma (the "Bad" of
\* the development tests), an empty line and a line of one space.
BatchLines ==
  { <<"V", "?", ",", "A", ";", "B", ",", "1">>,
    <<"W", "?", ",", "Y", ";", "N", ",", "0">>,
    <<"B", "a", "d">>, <<>>, <<" ">> }

LineEnds == { <<"\n">>, <<"\r", "\n">> }

\* Three lines with either line ending between them, with or without a final
\* line terminator.
CSVBatches ==
  { a \o e1 \o b \o e2 \o c \o t :
      a \in BatchLines, e1 \in LineEnds, b \in BatchLines, e2 \in LineEnds,
      c \in BatchLines, t \in LineEnds \cup {<<>>} }

CSVTexts ==
  {csv2} \cup CSVRows
  \cup { r \o <<"\r", "\n">> \o <<"Y", "?", ",", "Y", ";", "N", ",", "0">> : r \in CSVRows }
  \cup CSVBatches

InitCSV == Mounted /\ \E t \in CSVTexts : reader = [text |-> t, done |-> FALSE]

\* reader.onload for a file whose name does not end in .json, lines 332-336
onload ==
  /\ reader # Null
  /\ ~reader.done
  /\ handleCSVUpload(reader.text)
  /\ reader' = [reader EXCEPT !.done = TRUE]
  /\ UNCHANGED <<gameState, oxygen, score, mobileControls, splash, player, keys, lastTs,
                 activePocketId, answeredPocketIds, currentQ, selectedOption, pockets,
                 treasure, effectPending, keyPresses, longTicks, fineTicks>>

NextCSV == onload

SpecCSV == InitCSV /\ [][NextCSV]_vars

----------------------------------------------------------------------------
(* The dive frame by frame: runs of frames and single frames.               *)

NextFine ==
  \/ \E elapsed \in Elapsed : Tick(TicksPerStep, elapsed)
  \/ \E elapsed \in Elapsed : Tick(1, elapsed)
  \/ WinEffect
  \/ Start

SpecFine == Init /\ [][NextFine]_vars

----------------------------------------------------------------------------
(* The dive with the arrow keys, on a host that reports a steady frame     *)
(* interval: a key is pressed or released between runs of frames.          *)

\* The frame interval (ms) of a host with a steady 60 Hz display.
SteadyElapsed == {16}

NextKeys ==
  \/ \E elapsed \in SteadyElapsed : Tick(TicksPerStep, elapsed)
  \/ \E elapsed \in SteadyElapsed : Tick(1, elapsed)
  \/ WinEffect
  \/ Start
  \/ \E dir \in {"left", "right"} : KeyDown(dir)
  \/ \E dir \in {"left", "right"} : KeyUp(dir)

SpecKeys == Init /\ [][NextKeys]_vars

----------------------------------------------------------------------------
(* The session left to run: start, then frames and the effects of the      *)
(* renders.  requestAnimationFrame keeps calling step, and React runs the  *)
(* effect of a render.                                                     *)

NextLive ==
  \/ \E elapsed \in Elapsed : Tick(TicksPerStep, elapsed)
  \/ WinEffect
  \/ Start

SpecLive ==
  /\ Init
  /\ [][NextLive]_vars
  /\ WF_vars(\E elapsed \in Elapsed : Tick(TicksPerStep, elapsed))
  /\ WF_vars(WinEffect)

----------------------------------------------------------------------------
(* The worlds the random source can draw: every pocket step at one end of  *)
(* its range, the treasure at either end of its own.                       *)

AllWorlds ==
  { <<xs, steps, tx>> :
      xs \in { <<480, 120, 840, 120, 840, 120, 840, 480>> },
      steps \in [1..N -> {PocketStepMin, PocketStepMax}],
      tx \in {TreasureXMin, VIEW_W - TreasureXMin} }

InitWorld == MountedIn(AllWorlds) /\ reader = Null

NextWorld ==
  \/ \E elapsed \in SteadyElapsed : Tick(TicksPerStep, elapsed)
  \/ WinEffect
  \/ Start
  \/ Restart

SpecWorld == InitWorld /\ [][NextWorld]_vars

----------------------------------------------------------------------------
(* Properties. *)

TickStep == \E elapsed \in Elapsed : Tick(TicksPerStep, elapsed)

ResetStep == Start \/ Restart

\* The pockets not yet cleared, and the nearest of them (none is nearer).
Uncleared == {i \in 1..Len(pockets) : pockets[i].id \notin answeredPocketIds}

IsNearest(i) ==
  /\ i \in Uncleared
  /\ \A j \in Uncleared : ~PairLess(Dist2(player, pockets[j]), Dist2(player, pockets[i]))

\* The proximity predicate holds for pocket i.
Enterable(i) == IsNearest(i) /\ InRange(player, pockets[i])

\* C1: in every reachable state the oxygen level is within [0, 100].
C1_OxygenInRange == oxygen >= 0 /\ oxygen <= Ox(100)

\* A game lost by running out of oxygen after a pocket's bonus was granted.
C1_Witness == gameState = "gameover" /\ oxygen = 0 /\ answeredPocketIds # {}

\* C2: the set of cleared pockets changes only by a submit of the correct option,
\* which adds the active pocket, or by start / restart, which empty it.
C2_ClearedOnlyBySubmit ==
  [][answeredPocketIds' # answeredPocketIds =>
       \/ /\ Submit
          /\ gameState = "question"
          /\ currentQ # Null
          /\ selectedOption = currentQ.answerIndex
          /\ activePocketId # NoPocket
          /\ answeredPocketIds' = answeredPocketIds \cup {activePocketId}
       \/ /\ ResetStep
          /\ answeredPocketIds' = {}]_vars

\* Two pockets cleared in one session.
C2_Witness == Cardinality(answeredPocketIds) >= 2

\* C3: an enter-pocket action that changes the session does so in state playing
\* or intro, with the nearest uncleared pocket within radius + 18 + 8 of the
\* player, and records that pocket as the active one; otherwise the session is
\* unchanged.
C3_EnterOnlyInRange ==
  [][((ClickE \/ KeyE) /\ session' # session) =>
       /\ gameState \in {"playing", "intro"}
       /\ \E i \in 1..Len(pockets) : Enterable(i) /\ activePocketId' = pockets[i].id]_vars

\* The last pocket entered while the first one, cleared, is out of the count.
C3_Witness ==
  /\ gameState = "question"
  /\ effectPending
  /\ activePocketId = N
  /\ 1 \in answeredPocketIds

\* The effect of a successful enter-pocket action on pocket i.
Entered(i) ==
  /\ gameState' = "question"
  /\ activePocketId' = pockets[i].id
  /\ selectedOption' = NoOption

\* C4: in state playing with the proximity predicate true for an uncleared
\* pocket, an enter-pocket action moves the session to state question with that
\* pocket active and no selection, through the E key and through the E button
\* (shown when the mobile controls are on).
C4_EnterFromEitherPath ==
  \A i \in 1..Len(pockets) :
    (gameState = "playing" /\ ~effectPending /\ Enterable(i)) =>
      /\ ENABLED (KeyE /\ Entered(i))
      /\ mobileControls => ENABLED (ClickE /\ Entered(i))

\* C5: a tick in state playing that leaves the player inside the treasure box
\* with its margin, the oxygen not running out, makes the state win; and a tick
\* in state win leaves it win.
C5_TickInsideTreasureWins ==
  [][TickStep =>
       /\ (gameState = "playing" /\ insideTreasure(player', treasure) /\ oxygen' > 0)
            => gameState' = "win"
       /\ gameState = "win" => gameState' = "win"]_vars

\* C6: a tick in state playing on which the oxygen reaches 0 yields gameover, no
\* tick yields win, and gameover is not followed by win.
C6_OxygenOutIsGameOver ==
  [][/\ (TickStep /\ gameState = "playing" /\ oxygen' <= 0) => gameState' = "gameover"
     /\ TickStep => (gameState' = "win" => gameState = "win")
     /\ gameState = "gameover" => gameState' # "win"]_vars

\* The oxygen ran out on a tick that left the player inside the treasure box.
C6_Witness ==
  /\ gameState = "gameover"
  /\ oxygen = 0
  /\ ~effectPending
  /\ insideTreasure(player, treasure)

\* C7: a submit of a wrong option in state question yields gameover, and from
\* gameover the session reaches playing again only through start / restart.
C7_WrongAnswerIsGameOver ==
  [][/\ ( /\ Submit
          /\ gameState = "question"
          /\ currentQ # Null
          /\ selectedOption # NoOption
          /\ selectedOption # currentQ.answerIndex ) => gameState' = "gameover"
     /\ gameState = "gameover" => gameState' \in {"gameover", "menu", "intro"}
     /\ gameState = "menu" => gameState' \in {"menu", "intro"}
     /\ (gameState' = "intro" /\ gameState # "intro") => ResetStep]_vars

\* A game lost by a wrong answer, with oxygen left.
C7_Witness == gameState = "gameover" /\ oxygen > 0 /\ currentQ # Null /\ ~effectPending

\* C8: a submit of the correct option in state question moves to playing, adds
\* exactly the active pocket to the cleared set, raises the oxygen by 40 up to
\* 100, and sets active pocket, current question and selection to none.
C8_CorrectAnswer ==
  [][( /\ Submit
       /\ gameState = "question"
       /\ currentQ # Null
       /\ selectedOption # NoOption
       /\ selectedOption = currentQ.answerIndex ) =>
       /\ gameState' = "playing"
       /\ activePocketId # NoPocket
       /\ answeredPocketIds' = answeredPocketIds \cup {activePocketId}
       /\ oxygen' = Min(oxygen + Ox(40), Ox(100))
       /\ activePocketId' = NoPocket
       /\ currentQ' = Null
       /\ selectedOption' = NoOption]_vars

\* Back in state playing, next to the pocket just cleared, after a correct answer
\* whose bonus was not cut at 100.
C8_Witness ==
  /\ gameState = "playing"
  /\ effectPending
  /\ currentQ = Null
  /\ activePocketId = NoPocket
  /\ \E i \in 1..Len(pockets) :
       pockets[i].id \in answeredPocketIds /\ InRange(player, pockets[i])
  /\ oxygen >= Ox(OxygenBonus)
  /\ oxygen < Ox(100)

\* C9: the current question is non-null iff the state is question, and the
\* active pocket is non-null iff the state is question.
C9_QuestionIffStateQuestion ==
  /\ currentQ # Null <=> gameState = "question"
  /\ activePocketId # NoPocket <=> gameState = "question"

\* C10: the score never decreases on a step that is not a start / restart.
C10_ScoreMonotone == [][ResetStep \/ score' >= score]_vars

\* A game over with a positive score.
C10_Witness == gameState = "gameover" /\ score > Floor(Px(WATER_SURFACE_Y))

\* C11: restart is offered in every non-menu state, and a restart from a
\* non-menu state yields intro with oxygen 100, score 0, no cleared pocket, no
\* active pocket, no question and no selection, all in the one step.
C11_RestartResetsAll ==
  /\ []((gameState # "menu" /\ ~effectPending) => ENABLED Restart)
  /\ [][(Restart /\ gameState # "menu") =>
          /\ gameState' = "intro"
          /\ oxygen' = Ox(100)
          /\ score' = 0
          /\ answeredPocketIds' = {}
          /\ activePocketId' = NoPocket
          /\ currentQ' = Null
          /\ selectedOption' = NoOption]_vars

\* State intro reached by restart (no start velocity) after a dive with long frames.
C11_Witness ==
  /\ gameState = "intro"
  /\ effectPending
  /\ player = [x |-> Px(VIEW_W) \div 2, y |-> Px(20), vx |-> 0, vy |-> 0]
  /\ longTicks > 0
  /\ oxygen = Ox(100) /\ score = 0 /\ answeredPocketIds = {}

\* C12: in state question with no option selected the submit can be issued and
\* changes no session field.
C12_SubmitWithoutSelection ==
  (gameState = "question" /\ ~effectPending /\ selectedOption = NoOption) =>
    /\ ENABLED Submit
    /\ ~ENABLED (Submit /\ session' # session)

\* The modal of the last pocket, nothing selected, with a pocket cleared before.
C12_Witness ==
  /\ gameState = "question"
  /\ ~effectPending
  /\ selectedOption = NoOption
  /\ currentQ # Null
  /\ answeredPocketIds # {}

C14_CancelKeepsOxygenAndPockets ==
  [][/\ Cancel =>
          /\ gameState' = "playing"
          /\ oxygen' = oxygen
          /\ answeredPocketIds' = answeredPocketIds
     /\ ((ClickE \/ KeyE) \/ (gameState = "question" /\ gameState' = "question")) =>
          /\ oxygen' = oxygen
          /\ answeredPocketIds' = answeredPocketIds]_vars

\* Back in state playing by cancel, an option selected, next to the pocket left.
C14_Witness ==
  /\ gameState = "playing"
  /\ effectPending
  /\ currentQ # Null
  /\ selectedOption # NoOption
  /\ activePocketId \notin answeredPocketIds
  /\ \E i \in 1..Len(pockets) : pockets[i].id = activePocketId /\ InRange(player, pockets[i])
  /\ oxygen < Ox(100)

\* The fields a tick of a suspended session leaves alone.
physics == <<player, oxygen, score, answeredPocketIds, gameState>>

\* C15: in state paused, question, menu, gameover or win a tick runs and leaves
\* player, oxygen, score, cleared set and state unchanged; and resume yields
\* playing with the player, oxygen and score of the paused state.
C15_TickSuspended ==
  (gameState \in {"paused", "question", "menu", "gameover", "win"} /\ ~effectPending) =>
    /\ ENABLED TickStep
    /\ ~ENABLED (TickStep /\ physics' # physics)
    /\ gameState = "paused" =>
         /\ ENABLED TogglePause
         /\ ~ENABLED (TogglePause /\ <<gameState, player, oxygen, score>>'
                                        # <<"playing", player, oxygen, score>>)

\* Resumed from a pause under water (no question was opened, no pocket cleared).
C15_Witness ==
  /\ gameState = "playing"
  /\ effectPending
  /\ player.y > Px(2 * WATER_SURFACE_Y)
  /\ currentQ = Null
  /\ answeredPocketIds = {}
  /\ oxygen < Ox(100)

\* C16, as claimed: a step that leaves gameover or win is a restart, to intro.
C16_TerminalOnlyRestart ==
  [][(gameState \in {"gameover", "win"} /\ gameState' # gameState) =>
       (Restart /\ gameState' = "intro")]_vars

\* C16, amended: a step that leaves gameover or win is a restart, to intro, or
\* the Main Menu button, to menu.
C16_TerminalRestartOrMenu ==
  [][(gameState \in {"gameover", "win"} /\ gameState' # gameState) =>
       \/ Restart /\ gameState' = "intro"
       \/ MainMenu /\ gameState' = "menu"]_vars

\* Back on the menu after a game.
C16_Witness == gameState = "menu" /\ effectPending /\ score > 0

\* C17: a restart leaves the player and the session fields as start() sets
\* them (player: line 220).
C17_RestartSameAsStart ==
  [][Restart =>
       /\ player' = [x |-> Px(VIEW_W) \div 2, y |-> Px(20), vx |-> 60, vy |-> -120]
       /\ Reset]_vars

\* C18: the question list is never empty, and a pocket of ordinal index i
\* entered with a list of length L gets the question at position i mod L.
C18_QuestionByIndexModLength ==
  /\ [](Len(questions) >= 1)
  /\ [][((ClickE \/ KeyE) /\ gameState' = "question") =>
          \E i \in 1..Len(pockets) :
            /\ activePocketId' = pockets[i].id
            /\ currentQ' = questions[((i - 1) % Len(questions)) + 1]]_vars

\* The last pocket (index 7) entered with a list shorter than 8: the list wrapped.
C18_Witness ==
  /\ gameState = "question"
  /\ activePocketId = pockets[N].id
  /\ Len(questions) < N
  /\ currentQ = questions[((N - 1) % Len(questions)) + 1]
  /\ currentQ # questions[Len(questions)]
  /\ currentQ # questions[1]

\* The rows of a JSON upload that pass the filter, in order.
AcceptedJSON(up) ==
  LET ok == SelectSeq(up.rows, LAMBDA r : r.question # "" /\ Len(r.options) >= 2 /\ r.finite)
  IN  [i \in 1..Len(ok) |->
         [question |-> ok[i].question, options |-> ok[i].options,
          answerIndex |-> ok[i].answerIndex]]

\* C19: the question list changes only by a load that yields at least one row,
\* to exactly the rows of that load; every other load leaves it as it was.
C19_LoadAllOrNothing ==
  [][/\ questions' # questions =>
          \/ \E up \in JSONUploads :
               /\ handleJSONUpload(up)
               /\ up.isArray
               /\ AcceptedJSON(up) # <<>>
               /\ questions' = AcceptedJSON(up)
          \/ \E text \in CSVUploads :
               /\ CSVUpload(text)
               /\ parseCSVLoose(text) # <<>>
               /\ questions' = parseCSVLoose(text)
     /\ \A up \in JSONUploads :
          (handleJSONUpload(up) /\ (~up.isArray \/ \A i \in 1..Len(up.rows) :
                                      up.rows[i] = Null \/ ~JSONRowOk(up.rows[i])))
            => questions' = questions
     /\ \A text \in CSVUploads :
          (CSVUpload(text) /\ \A i \in 1..Len(text) : text[i] # ",")
            => questions' = questions]_vars

\* A list loaded from a file during a question of the list before.
C19_Witness ==
  /\ gameState = "question"
  /\ questions # SAMPLE_QUESTIONS
  /\ \A i \in 1..Len(questions) : questions[i] # currentQ

\* The commas of a line, and the text before the last comma but one.
Commas(line) == {i \in 1..Len(line) : line[i] = ","}

BeforeLastTwoCommas(line) ==
  LET last == CHOOSE i \in Commas(line) : \A j \in Commas(line) : j <= i
      prev == CHOOSE i \in Commas(line) \ {last} : \A j \in Commas(line) \ {last} : j <= i
  IN  SubSeq(line, 1, prev - 1)

\* C20: a one-line text with at least two commas that yields a row yields the
\* question text before the last two commas, every other comma kept; and csv2
\* yields the question "What, if any, is X?".
C20_QuestionKeepsCommas ==
  (reader # Null /\ reader.done) =>
    /\ reader.text = csv2 => questions[1].question = "What, if any, is X?"
    /\ ( /\ indexOf(reader.text, "\n") = -1
         /\ Cardinality(Commas(reader.text)) >= 2
         /\ questions # SAMPLE_QUESTIONS )
         => questions[1].question = Str(trim(BeforeLastTwoCommas(reader.text)))


----------------------------------------------------------------------------
\* The valid rows of a batch are those that begin with V or W; no other
\* character of a batch is one of the two.
IsRowMark(c) == c \in {"V", "W"}

RowOfMark(c) ==
  IF c = "V" THEN [question |-> "V?", options |-> <<"A", "B">>, answerIndex |-> 1]
  ELSE [question |-> "W?", options |-> <<"Y", "N">>, answerIndex |-> 0]

ValidRowsOf(text) ==
  LET marks == SelectSeq(text, IsRowMark)
  IN  [i \in 1..Len(marks) |-> RowOfMark(marks[i])]

\* C21: once a batch of valid rows, lines without a comma and blank lines,
\* with LF or CRLF endings and with or without a final terminator, is
\* loaded, the question list is exactly the valid rows in input order; the
\* load fails, keeping the list it had, only when the batch has no valid row.
C21_RowsDroppedIndividually ==
  (reader # Null /\ reader.done /\ reader.text \in CSVBatches) =>
    questions = IF ValidRowsOf(reader.text) = <<>> THEN SAMPLE_QUESTIONS
                ELSE ValidRowsOf(reader.text)

\* A malformed line with a CRLF ending, a valid row, a blank line and a final
\* terminator were loaded, and the one valid row is the list.
C21_Witness ==
  /\ reader # Null
  /\ reader.done
  /\ reader.text = <<"B", "a", "d", "\r", "\n",
                     "V", "?", ",", "A", ";", "B", ",", "1", "\n", "\n">>
  /\ questions = <<RowOfMark("V")>>

----------------------------------------------------------------------------
\* The elements of an array that are records with a question, two or more
\* options and a finite index, in the order of the array.
ValidRecordsOf(rows) ==
  LET ok == SelectSeq(rows, LAMBDA r : r # Null /\ r.question # ""
                                        /\ Len(r.options) >= 2 /\ r.finite)
  IN  [i \in 1..Len(ok) |->
         [question |-> ok[i].question, options |-> ok[i].options,
          answerIndex |-> ok[i].answerIndex]]

\* C22: a JSON load of an array with at least one valid record never leaves
\* the question list other than the valid records of the array: an element
\* that is no record (null) or is invalid is dropped on its own.
C22_InvalidRecordsDroppedIndividually ==
  ~effectPending =>
    \A up \in JSONUploads :
      (up.isArray /\ ValidRecordsOf(up.rows) # <<>>) =>
        ~ENABLED (handleJSONUpload(up) /\ questions' # ValidRecordsOf(up.rows))

----------------------------------------------------------------------------
\* C23: every question of the active list has a non-empty text and at least
\* two options.
C23_QuestionsWellFormed ==
  \A i \in 1..Len(questions) :
    questions[i].question # "" /\ Len(questions[i].options) >= 2

----------------------------------------------------------------------------
\* The properties of the generated checkpoints.
WorldWellFormed ==
  /\ Len(pockets) = 8
  /\ pockets[1].y = Px(400)
  /\ \A i \in 1..Len(pockets) :
       /\ pockets[i].x >= Px(120)
       /\ pockets[i].x <= Px(VIEW_W - 120)
  /\ \A i \in 1..(Len(pockets) - 1) :
       /\ pockets[i + 1].y > pockets[i].y
       /\ pockets[i + 1].y - pockets[i].y > pockets[i].radius + pockets[i + 1].radius

\* C24: whatever the random source draws, there are exactly 8 checkpoints,
\* the first at depth 400, each deeper than the one before by more than the
\* sum of their radii, all within the horizontal margins; and no tick, start
\* or restart changes the checkpoints or the treasure.
C24_WorldGeneration ==
  /\ []WorldWellFormed
  /\ [][pockets' = pockets /\ treasure' = treasure]_vars

\* A world with a smallest and a largest step next to each other, just after
\* a restart.
C24_Witness ==
  /\ gameState = "intro"
  /\ player = [x |-> Px(VIEW_W) \div 2, y |-> Px(20), vx |-> 0, vy |-> 0]
  /\ pockets[2].y = Px(FirstPocketY + PocketStepMin)
  /\ pockets[3].y = pockets[2].y + Px(PocketStepMax)
  /\ WorldWellFormed

----------------------------------------------------------------------------
\* C30: every generated checkpoint lies within the world depth and within
\* the enter threshold of the deepest position the player can reach.
C30_EveryPocketEnterable ==
  \A i \in 1..Len(pockets) :
    /\ pockets[i].y <= Px(WORLD_H - 40) + EnterThreshold(pockets[i])
    /\ pockets[i].y <= Px(WORLD_H)

----------------------------------------------------------------------------
\* C25: the player is always within the horizontal margins [30, VIEW_W - 30]
\* and within the world depth [0, WORLD_H]; in state playing the depth is
\* within [20, WORLD_H - 40].
C25_PlayerInBounds ==
  /\ player.x >= Px(30)
  /\ player.x <= Px(VIEW_W - 30)
  /\ player.y >= 0
  /\ player.y <= Px(WORLD_H)
  /\ gameState = "playing" => (player.y >= Px(20) /\ player.y <= Px(WORLD_H - 40))

\* The player held the left key down to the margin and sank to the floor.
C25_Witness ==
  /\ gameState = "playing"
  /\ keys.left
  /\ player.x = Px(30)
  /\ player.y = Px(WORLD_H - 40)

----------------------------------------------------------------------------
\* One frame of the loop, whatever interval the host reports.
FrameStep == \E elapsed \in Elapsed : Tick(1, elapsed)

\* C26: whatever interval the host reports, one frame in state playing
\* lowers the player by at most the descent rate, never below the floor, and
\* drains at most the oxygen of a 33 ms frame; a run of frames does so at
\* most once per frame.
C26_FrameBounded ==
  [][/\ (FrameStep /\ gameState = "playing") =>
          /\ player'.y - player.y \in 0..Descent
          /\ player'.y <= Px(WORLD_H - 40)
          /\ oxygen - oxygen' \in 0..Drain(33)
     /\ (TickStep /\ gameState = "playing") =>
          /\ player'.y - player.y \in 0..(TicksPerStep * Descent)
          /\ player'.y <= Px(WORLD_H - 40)
          /\ oxygen - oxygen' \in 0..(TicksPerStep * Drain(33))]_vars

\* In state playing one frame came 5000 ms after the one before it, and the
\* oxygen fell by the drain of 33 ms.
C26_Witness ==
  /\ gameState = "playing"
  /\ fineTicks = 1
  /\ longTicks = 1
  /\ oxygen = Ox(100) - Drain(33)

----------------------------------------------------------------------------
\* C27: a frame or run of frames in state intro ends in playing exactly when
\* it brings the player to the water surface (110) or below it; then the
\* vertical velocity is 0 and a splash is emitted at the surface where there
\* was none.  It drains no oxygen and scores nothing, and one frame moves the
\* player by gravity, not by the descent rate.  A frame in state playing
\* applies no gravity.  Only frames lead from intro to playing.
C27_SurfaceCrossing ==
  [][/\ ((FrameStep \/ TickStep) /\ gameState = "intro") =>
          /\ gameState' \in {"intro", "playing"}
          /\ gameState' = "playing" <=> player'.y >= Px(WATER_SURFACE_Y)
          /\ gameState' = "playing" =>
                /\ player'.vy = 0
                /\ splash = Null
                /\ splash' = [x |-> player'.x, y |-> Px(WATER_SURFACE_Y)]
          /\ oxygen' = oxygen
          /\ score' = score
     /\ (FrameStep /\ gameState = "intro") =>
          player'.y = player.y + player.vy + Gravity
     /\ ((FrameStep \/ TickStep) /\ gameState = "playing") =>
          player'.vy = player.vy
     /\ (gameState = "intro" /\ gameState' = "playing") => (FrameStep \/ TickStep)]_vars

\* After single frames in the air a run of frames crossed the surface: the
\* render of state playing is pending, the velocity is 0 and the splash is set.
C27_Witness ==
  /\ gameState = "playing"
  /\ effectPending
  /\ fineTicks > 0
  /\ player.y >= Px(WATER_SURFACE_Y)
  /\ player.vy = 0
  /\ splash # Null
  /\ oxygen = Ox(100)

----------------------------------------------------------------------------
\* C28: state win is reachable from the menu: whenever the render of state
\* playing finds the player inside the treasure box, the win effect sets
\* win (the witness is a state win so reached).
C28_WinReachable ==
  (gameState = "playing" /\ effectPending /\ insideTreasure(player, treasure)) =>
    ENABLED (WinEffect /\ gameState' = "win")

\* A game started from the menu was won with oxygen left.
C28_Witness ==
  /\ gameState = "win"
  /\ insideTreasure(player, treasure)
  /\ oxygen > 0
  /\ score > 0

----------------------------------------------------------------------------
\* C29: left to run, with frames that keep coming and no other action, a
\* session in state playing eventually reaches gameover or win.
C29_SessionEnds ==
  (gameState = "playing") ~> (gameState \in {"gameover", "win"})

\* The session left to run ended with the oxygen out.
C29_Witness ==
  /\ gameState = "gameover"
  /\ oxygen = 0
  /\ answeredPocketIds = {}

----------------------------------------------------------------------------
\* A dataset load in either format completes.
Load ==
  \/ \E up \in JSONUploads : handleJSONUpload(up)
  \/ \E text \in CSVUploads : CSVUpload(text)

\* C31: a dataset load, accepted or rejected, in whatever state it completes,
\* leaves the game state, the question on display, the selected option, the
\* active pocket, the oxygen, the score, the cleared pockets and the player
\* as they were.
C31_LoadChangesOnlyQuestions ==
  [][Load => UNCHANGED <<gameState, currentQ, selectedOption, activePocketId, oxygen,
                         score, answeredPocketIds, player>>]_vars

\* A load was accepted while a question was on display: the question shown
\* is not in the new list, and the game is still in state question.
C31_Witness ==
  /\ gameState = "question"
  /\ currentQ # Null
  /\ activePocketId # NoPocket
  /\ questions # SAMPLE_QUESTIONS
  /\ \A i \in 1..Len(questions) : questions[i] # currentQ
  /\ oxygen < Ox(100)
  /\ score > 0

=============================================================================
